---------------------------- MODULE Spec2Model ----------------------------
(***************************************************************************)
(* Model of Netflix_EDA/netflix_eda.py: the NetflixEDA pipeline            *)
(* (load_data, explore_data, clean_data, six analyzers,                    *)
(* create_visualizations) driven by run_complete_analysis.                 *)
(*                                                                         *)
(* Strings are sequences of one-character strings so that split, strip,   *)
(* substring tests and int() are computed on characters.  A table cell is *)
(* a tagged record: a string, an integer, a parsed date, or one of the    *)
(* three missing values pandas distinguishes (NaN in an object column,    *)
(* NaT in a datetime column, NaN in a numeric column).  A row is a        *)
(* function from column names to cells; a table is a sequence of rows.    *)
(* DataFrame objects live in a heap so that aliasing and copying are      *)
(* visible.                                                                *)
(***************************************************************************)
EXTENDS Integers, Sequences, FiniteSets, TLC

VARIABLES file, heap, df, cleaned_df, pc, log, artifacts,
          content_counts, release_trends, genre_counts, top_genres,
          country_counts, top_countries, movie_durations, tv_durations,
          rating_counts

vars == <<file, heap, df, cleaned_df, pc, log, artifacts,
          content_counts, release_trends, genre_counts, top_genres,
          country_counts, top_countries, movie_durations, tv_durations,
          rating_counts>>

results == <<content_counts, release_trends, genre_counts, top_genres,
             country_counts, top_countries, movie_durations, tv_durations,
             rating_counts>>

\* Largest number of rows of an input table.
MaxRows == 3

-----------------------------------------------------------------------------
(* Cells *)

StrCell(s) == [t |-> "str", v |-> s]
IntCell(n) == [t |-> "int", v |-> n]
DateCell(y, m, d) == [t |-> "date", year |-> y, month |-> m, day |-> d]
Null == [t |-> "null"]
NaT == [t |-> "nat"]
NaN == [t |-> "nan"]

\* Series.isnull / dropna / fillna: which cells count as missing.
IsNull(c) == c.t \in {"null", "nat", "nan"}

\* Python's None for self.df and self.cleaned_df.
None == "None"

-----------------------------------------------------------------------------
(* String literals of the program and of the modelled inputs *)

sMovie == <<"M", "o", "v", "i", "e">>
sTVShow == <<"T", "V", " ", "S", "h", "o", "w">>
sUnknown == <<"U", "n", "k", "n", "o", "w", "n">>
sMin == <<"m", "i", "n">>
sSeason == <<"S", "e", "a", "s", "o", "n">>

DigitValue ==
    ("0" :> 0) @@ ("1" :> 1) @@ ("2" :> 2) @@ ("3" :> 3) @@ ("4" :> 4) @@
    ("5" :> 5) @@ ("6" :> 6) @@ ("7" :> 7) @@ ("8" :> 8) @@ ("9" :> 9)

IsDigit(c) == c \in DOMAIN DigitValue

\* The month names dateutil knows, restricted to those the inputs use.
MonthNumber ==
    (<<"M", "a", "y">> :> 5) @@ (<<"J", "u", "n", "e">> :> 6) @@
    (<<"J", "u", "l", "y">> :> 7)

-----------------------------------------------------------------------------
(* Python string primitives *)

RECURSIVE LStrip(_)
LStrip(s) == IF s # <<>> /\ Head(s) = " " THEN LStrip(Tail(s)) ELSE s

RECURSIVE RStrip(_)
RStrip(s) ==
    IF s # <<>> /\ s[Len(s)] = " " THEN RStrip(SubSeq(s, 1, Len(s) - 1)) ELSE s

\* str.strip()
Strip(s) == RStrip(LStrip(s))

\* str.split(sep) for a one-character sep: empty pieces are kept.
RECURSIVE SplitAcc(_, _, _)
SplitAcc(s, sep, cur) ==
    IF s = <<>> THEN <<cur>>
    ELSE IF Head(s) = sep THEN <<cur>> \o SplitAcc(Tail(s), sep, <<>>)
    ELSE SplitAcc(Tail(s), sep, Append(cur, Head(s)))

Split(s, sep) == SplitAcc(s, sep, <<>>)

\* str.split() without argument: runs of whitespace separate, no empty piece.
RECURSIVE SplitWsAcc(_, _)
SplitWsAcc(s, cur) ==
    IF s = <<>> THEN (IF cur = <<>> THEN <<>> ELSE <<cur>>)
    ELSE IF Head(s) = " "
         THEN (IF cur = <<>> THEN <<>> ELSE <<cur>>) \o SplitWsAcc(Tail(s), <<>>)
    ELSE SplitWsAcc(Tail(s), Append(cur, Head(s)))

SplitWs(s) == SplitWsAcc(s, <<>>)

\* sub in s
Contains(s, sub) ==
    \E i \in 1..(Len(s) - Len(sub) + 1) : SubSeq(s, i, i + Len(sub) - 1) = sub

AllDigits(s) == s # <<>> /\ \A i \in 1..Len(s) : IsDigit(s[i])

RECURSIVE DigitsValue(_, _)
DigitsValue(s, acc) ==
    IF s = <<>> THEN acc ELSE DigitsValue(Tail(s), 10 * acc + DigitValue[Head(s)])

\* int(tok) succeeds: an optional sign followed by digits.
IntParses(tok) ==
    IF tok # <<>> /\ Head(tok) \in {"+", "-"} THEN AllDigits(Tail(tok))
    ELSE AllDigits(tok)

\* int(tok) where it succeeds.
IntOf(tok) ==
    IF Head(tok) = "-" THEN 0 - DigitsValue(Tail(tok), 0)
    ELSE IF Head(tok) = "+" THEN DigitsValue(Tail(tok), 0)
    ELSE DigitsValue(tok, 0)

-----------------------------------------------------------------------------
(* pandas primitives used by clean_data *)

\* Commas separate like blanks when a date string is tokenised.
CommaToSpace(s) == [i \in 1..Len(s) |-> IF s[i] = "," THEN " " ELSE s[i]]

\* One element of pd.to_datetime(..., errors='coerce'): a "Month D, YYYY"
\* string becomes a date, a date stays, anything else is coerced to NaT.
ToDatetime(c) ==
    IF c.t = "date" THEN c
    ELSE IF c.t # "str" THEN NaT
    ELSE LET tk == SplitWs(CommaToSpace(c.v))
         IN IF /\ Len(tk) = 3
               /\ tk[1] \in DOMAIN MonthNumber
               /\ AllDigits(tk[2]) /\ DigitsValue(tk[2], 0) \in 1..31
               /\ AllDigits(tk[3]) /\ Len(tk[3]) = 4
            THEN DateCell(DigitsValue(tk[3], 0), MonthNumber[tk[1]], DigitsValue(tk[2], 0))
            ELSE NaT

HasColumn(T, col) == \A i \in 1..Len(T) : col \in DOMAIN T[i]

\* pd.to_datetime(df[col], errors='coerce') assigned back to df[col].
ToDatetimeColumn(T, col) ==
    [i \in 1..Len(T) |-> [T[i] EXCEPT ![col] = ToDatetime(T[i][col])]]

\* df[col] = values (adds the column when it is not there).
AssignColumn(T, col, values) ==
    [i \in 1..Len(T) |-> (col :> values[i]) @@ T[i]]

\* Series.fillna(method='ffill') as a bugged variant: at most one row is
\* filled after each valid value (limit=1).
FfillLimitOne(T, col) ==
    [i \in 1..Len(T) |->
        IF IsNull(T[i][col]) /\ i > 1 /\ ~IsNull(T[i - 1][col])
        THEN [T[i] EXCEPT ![col] = T[i - 1][col]]
        ELSE T[i]]

\* Series.fillna(method='ffill') as a bugged variant: backward fill.
Bfill(T, col) ==
    [i \in 1..Len(T) |->
        IF IsNull(T[i][col]) /\ \E j \in (i + 1)..Len(T) : ~IsNull(T[j][col])
        THEN LET j == CHOOSE k \in (i + 1)..Len(T) :
                        /\ ~IsNull(T[k][col])
                        /\ \A m \in (i + 1)..(k - 1) : IsNull(T[m][col])
             IN [T[i] EXCEPT ![col] = T[j][col]]
        ELSE T[i]]

\* Series.fillna(method='ffill') (pandas 1.x and 2.x): the last valid value is
\* propagated forward; rows before the first valid value stay missing.
RECURSIVE FfillFrom(_, _, _)
FfillFrom(T, col, last) ==
    IF T = <<>> THEN <<>>
    ELSE LET c == Head(T)[col]
             v == IF IsNull(c) THEN last ELSE c
         IN <<[Head(T) EXCEPT ![col] = v]>> \o FfillFrom(Tail(T), col, v)

Ffill(T, col) == IF T = <<>> THEN T ELSE FfillFrom(T, col, Head(T)[col])

\* Series.fillna(value) as a bugged variant: the filled column is not
\* assigned back.
FillNaDiscarded(T, col, value) == T

\* Series.fillna(value)
FillNa(T, col, value) ==
    [i \in 1..Len(T) |->
        IF IsNull(T[i][col]) THEN [T[i] EXCEPT ![col] = value] ELSE T[i]]

\* drop_duplicates(subset=['show_id'], keep='last'), a bugged variant.
DropDuplicatesKeepLast(T) ==
    LET keep(i) == \A j \in (i + 1)..Len(T) : T[j].show_id # T[i].show_id
        F[i \in 0..Len(T)] ==
            IF i = 0 THEN <<>>
            ELSE IF keep(i) THEN Append(F[i - 1], T[i]) ELSE F[i - 1]
    IN F[Len(T)]

\* drop_duplicates(subset=['show_id'], keep='first')
RECURSIVE DropDuplicatesAcc(_, _)
DropDuplicatesAcc(T, seen) ==
    IF T = <<>> THEN <<>>
    ELSE IF Head(T).show_id \in seen THEN DropDuplicatesAcc(Tail(T), seen)
    ELSE <<Head(T)>> \o DropDuplicatesAcc(Tail(T), seen \cup {Head(T).show_id})

DropDuplicates(T) == DropDuplicatesAcc(T, {})

\* Series.dt.year / Series.dt.month of one element.
DtYear(c) == IF c.t = "date" THEN IntCell(c.year) ELSE NaN
DtMonth(c) == IF c.t = "date" THEN IntCell(c.month) ELSE NaN

\* df['date_added'].dt.year and .dt.month as columns.
YearAdded(T) == [i \in 1..Len(T) |-> DtYear(T[i].date_added)]
MonthAdded(T) == [i \in 1..Len(T) |-> DtMonth(T[i].date_added)]

-----------------------------------------------------------------------------
(* clean_data as a function of the table it copies *)

\* Lines 102-105: parse date_added, then forward fill it.
CleanDates(T) ==
    IF HasColumn(T, "date_added")
    THEN Ffill(ToDatetimeColumn(T, "date_added"), "date_added")
    ELSE T

\* Lines 107-117: country, rating and duration default to 'Unknown'.
FillUnknown(T) ==
    LET T1 == IF HasColumn(T, "country")
              THEN FillNa(T, "country", StrCell(sUnknown)) ELSE T
        T2 == IF HasColumn(T1, "rating")
              THEN FillNa(T1, "rating", StrCell(sUnknown)) ELSE T1
    IN IF HasColumn(T2, "duration")
       THEN FillNa(T2, "duration", StrCell(sUnknown)) ELSE T2

\* Lines 99-117: the in-place column assignments on the copy.
FillMissing(T) == FillUnknown(CleanDates(T))

\* Lines 125-127: year_added = date_added.dt.year.
AddYearAdded(T) ==
    IF HasColumn(T, "date_added") THEN AssignColumn(T, "year_added", YearAdded(T)) ELSE T

\* The Cleaner: the cleaned table clean_data derives from a table.
CleanTable(T) == AddYearAdded(DropDuplicates(FillMissing(T)))

-----------------------------------------------------------------------------
(* Analyzer primitives *)

\* Series.value_counts(): the count of every value present (missing dropped).
ValueCounts(T, col) ==
    LET present == {T[i][col] : i \in {k \in 1..Len(T) : ~IsNull(T[k][col])}}
    IN [v \in present |-> Cardinality({i \in 1..Len(T) : T[i][col] = v})]

\* [x.strip() for x in str(cell).split(',')]
StripAll(parts) == [i \in 1..Len(parts) |-> Strip(parts[i])]

CellTokens(c) == StripAll(Split(c.v, ","))

\* The loop over df[col].dropna() extending the list of all tokens.
RECURSIVE ColumnTokens(_, _)
ColumnTokens(T, col) ==
    IF T = <<>> THEN <<>>
    ELSE (IF IsNull(Head(T)[col]) THEN <<>> ELSE CellTokens(Head(T)[col]))
         \o ColumnTokens(Tail(T), col)

\* Counter: a dict in insertion order, here a sequence of (key, n) entries.
CounterAdd(cnt, k) ==
    IF \E i \in 1..Len(cnt) : cnt[i].key = k
    THEN [i \in 1..Len(cnt) |->
            IF cnt[i].key = k THEN [cnt[i] EXCEPT !.n = @ + 1] ELSE cnt[i]]
    ELSE Append(cnt, [key |-> k, n |-> 1])

\* Counter(items) as a bugged variant: a repeated key restarts at 1.
CounterRestart(items) ==
    LET add(cnt, k) ==
            IF \E i \in 1..Len(cnt) : cnt[i].key = k THEN cnt
            ELSE Append(cnt, [key |-> k, n |-> 1])
        F[i \in 0..Len(items)] ==
            IF i = 0 THEN <<>> ELSE add(F[i - 1], items[i])
    IN F[Len(items)]

\* Counter(items)
Counter(items) ==
    LET F[i \in 0..Len(items)] ==
            IF i = 0 THEN <<>> ELSE CounterAdd(F[i - 1], items[i])
    IN F[Len(items)]

\* sorted(..., key=count, reverse=True) as a bugged variant: equal counts
\* come out in reverse insertion order.
RECURSIVE InsertByCountUnstable(_, _)
InsertByCountUnstable(sorted, e) ==
    IF sorted = <<>> THEN <<e>>
    ELSE IF Head(sorted).n > e.n
         THEN <<Head(sorted)>> \o InsertByCountUnstable(Tail(sorted), e)
         ELSE <<e>> \o sorted

\* One step of the stable descending sort: e goes after every entry whose
\* count is at least its own.
RECURSIVE InsertByCount(_, _)
InsertByCount(sorted, e) ==
    IF sorted = <<>> THEN <<e>>
    ELSE IF Head(sorted).n >= e.n
         THEN <<Head(sorted)>> \o InsertByCount(Tail(sorted), e)
         ELSE <<e>> \o sorted

\* Counter.most_common(n): the n first entries of the stable descending sort.
MostCommon(cnt, n) ==
    LET F[i \in 0..Len(cnt)] ==
            IF i = 0 THEN <<>> ELSE InsertByCount(F[i - 1], cnt[i])
        all == F[Len(cnt)]
    IN SubSeq(all, 1, IF Len(all) < n THEN Len(all) ELSE n)

\* df[df['type'] == value]
FilterType(T, value) == SelectSeq(T, LAMBDA r : r.type = StrCell(value))

\* The duration loop as a bugged variant: the substring test is dropped.
DurationAcceptedNoSubstring(c, sub) ==
    /\ ~IsNull(c)
    /\ SplitWs(c.v) # <<>>
    /\ IntParses(SplitWs(c.v)[1])

\* The duration loop appends for this cell: it is present, contains sub, and
\* int() of its first whitespace-separated token does not raise.
DurationAccepted(c, sub) ==
    /\ ~IsNull(c)
    /\ Contains(c.v, sub)
    /\ SplitWs(c.v) # <<>>
    /\ IntParses(SplitWs(c.v)[1])

\* The loop over rows['duration'].dropna() of analyze_duration.
RECURSIVE DurationList(_, _)
DurationList(T, sub) ==
    IF T = <<>> THEN <<>>
    ELSE (IF DurationAccepted(Head(T).duration, sub)
          THEN <<IntOf(SplitWs(Head(T).duration.v)[1])>> ELSE <<>>)
         \o DurationList(Tail(T), sub)

\* most_common arguments of analyze_genres and analyze_countries.
TopGenres == 10
TopCountries == 15

-----------------------------------------------------------------------------
(* Input files: what pd.read_csv finds at data_path *)

\* "India"
sIndia == <<"I", "n", "d", "i", "a">>
\* "PG"
sPG == <<"P", "G">>
\* "May 1, 2020"
sDateMay == <<"M", "a", "y", " ", "1", ",", " ", "2", "0", "2", "0">>
\* "June 5, 2021"
sDateJune == <<"J", "u", "n", "e", " ", "5", ",", " ", "2", "0", "2", "1">>
\* "TBA"
sDateTBA == <<"T", "B", "A">>
\* "90 min"
s90min == <<"9", "0", " ", "m", "i", "n">>
\* "bad"
sBad == <<"b", "a", "d">>
\* "3 Seasons"
s3Seasons == <<"3", " ", "S", "e", "a", "s", "o", "n", "s">>
\* "1 Season"
s1Season == <<"1", " ", "S", "e", "a", "s", "o", "n">>
\* "45min"
s45min == <<"4", "5", "m", "i", "n">>
\* "Dramas"
sDramas == <<"D", "r", "a", "m", "a", "s">>
\* "Dramas, International Movies"
sDramasIntl == <<"D", "r", "a", "m", "a", "s", ",", " ", "I", "n", "t", "e", "r", "n", "a", "t", "i", "o", "n", "a", "l", " ", "M", "o", "v", "i", "e", "s">>
\* "a,b,c,d,e"
sGenresAE == <<"a", ",", "b", ",", "c", ",", "d", ",", "e">>
\* "f, g,h,i,j"
sGenresFJ == <<"f", ",", " ", "g", ",", "h", ",", "i", ",", "j">>
\* "k,a"
sGenresKA == <<"k", ",", "a">>
\* "A,B,C,D,E,F"
sCountriesAF == <<"A", ",", "B", ",", "C", ",", "D", ",", "E", ",", "F">>
\* "G,H,I,J,K,L"
sCountriesGL == <<"G", ",", "H", ",", "I", ",", "J", ",", "K", ",", "L">>
\* "M, N,O,P,A"
sCountriesMA == <<"M", ",", " ", "N", ",", "O", ",", "P", ",", "A">>

ShowIds == {1, 2}

BaseRow ==
    [show_id |-> IntCell(1), type |-> StrCell(sMovie), country |-> StrCell(sIndia),
     date_added |-> StrCell(sDateMay), release_year |-> IntCell(2020),
     rating |-> StrCell(sPG), duration |-> StrCell(s90min),
     listed_in |-> StrCell(sDramas)]

\* date_added as read: missing, unparseable, or one of two dates.
RawDates == {Null, StrCell(sDateTBA), StrCell(sDateMay), StrCell(sDateJune)}

\* Rows with duplicate ids and every kind of date, and rows with missing
\* country, rating and duration.
CleanRows ==
    {[BaseRow EXCEPT !.show_id = IntCell(i), !.date_added = d] :
        i \in ShowIds, d \in RawDates}
    \cup {[BaseRow EXCEPT !.country = Null, !.rating = Null, !.duration = Null,
                          !.date_added = Null, !.release_year = IntCell(2019)],
          [BaseRow EXCEPT !.show_id = IntCell(2), !.country = Null,
                          !.type = StrCell(sTVShow), !.duration = StrCell(s3Seasons)]}

\* Rows of either type with well-formed, malformed and missing durations.
DurationRows ==
    {[BaseRow EXCEPT !.type = StrCell(ty), !.duration = d] :
        ty \in {sMovie, sTVShow},
        d \in {Null, StrCell(s90min), StrCell(sBad), StrCell(s3Seasons),
               StrCell(s1Season), StrCell(s45min)}}

\* Rows with one, several and no genres and countries.
FreqRows ==
    {[BaseRow EXCEPT !.listed_in = StrCell(sDramasIntl)],
     [BaseRow EXCEPT !.listed_in = StrCell(sDramas), !.country = Null],
     [BaseRow EXCEPT !.listed_in = Null, !.country = StrCell(sCountriesAF)],
     [BaseRow EXCEPT !.listed_in = StrCell(sGenresAE),
                     !.country = StrCell(sCountriesGL)],
     [BaseRow EXCEPT !.listed_in = StrCell(sGenresFJ),
                     !.country = StrCell(sCountriesMA)],
     [BaseRow EXCEPT !.listed_in = StrCell(sGenresKA),
                     !.country = StrCell(sCountriesAF)]}

Tables(rows) == UNION {[1..n -> rows] : n \in 0..MaxRows}

\* show_id as a row number, for inputs without duplicate ids.
Numbered(T) == [i \in 1..Len(T) |-> [T[i] EXCEPT !.show_id = IntCell(i)]]

Files(tables) ==
    {[kind |-> "missing"], [kind |-> "malformed"]}
    \cup {[kind |-> "table", rows |-> T] : T \in tables}

Artifacts ==
    <<"netflix_analysis_overview.png", "netflix_duration_ratings.png",
      "netflix_heatmap.png">>

-----------------------------------------------------------------------------
(* State after NetflixEDA(data_path), at the start of run_complete_analysis *)

InitObject ==
    /\ heap = <<>>
    /\ df = None
    /\ cleaned_df = None
    /\ pc = "load"
    /\ log = <<>>
    /\ artifacts = {}
    /\ content_counts = <<>>
    /\ release_trends = <<>>
    /\ genre_counts = <<>>
    /\ top_genres = <<>>
    /\ country_counts = <<>>
    /\ top_countries = <<>>
    /\ movie_durations = <<>>
    /\ tv_durations = <<>>
    /\ rating_counts = <<>>

Init == file \in Files(Tables(CleanRows)) /\ InitObject

InitDuration ==
    /\ file \in Files({Numbered(T) : T \in Tables(DurationRows)})
    /\ InitObject

InitFreq ==
    /\ file \in Files({Numbered(T) : T \in Tables(FreqRows)})
    /\ InitObject

-----------------------------------------------------------------------------
(* load_data and the driver's test of its result *)

\* Where run_complete_analysis goes when load_data returns False (a bugged
\* variant: the result is ignored).
AfterFailedLoadIgnored == "explore"

\* Where run_complete_analysis goes when load_data returns False.
AfterFailedLoad == "aborted"

LoadOk ==
    /\ pc = "load"
    /\ file.kind = "table"
    /\ heap' = ("raw" :> file.rows) @@ heap
    /\ df' = "raw"
    /\ pc' = "explore"
    /\ log' = Append(log, "load")
    /\ UNCHANGED <<file, cleaned_df, artifacts, results>>

\* pd.read_csv raises FileNotFoundError: self.df is not assigned.
LoadNotFound ==
    /\ pc = "load"
    /\ file.kind = "missing"
    /\ pc' = AfterFailedLoad
    /\ log' = Append(log, "load")
    /\ UNCHANGED <<file, heap, df, cleaned_df, artifacts, results>>

\* pd.read_csv raises any other exception: self.df is not assigned.
LoadError ==
    /\ pc = "load"
    /\ file.kind = "malformed"
    /\ pc' = AfterFailedLoad
    /\ log' = Append(log, "load")
    /\ UNCHANGED <<file, heap, df, cleaned_df, artifacts, results>>

\* explore_data only prints.
ExploreData ==
    /\ pc = "explore"
    /\ pc' = "clean"
    /\ log' = IF df = None THEN log ELSE Append(log, "explore")
    /\ UNCHANGED <<file, heap, df, cleaned_df, artifacts, results>>

-----------------------------------------------------------------------------
(* clean_data *)

\* self.df.copy() as a bugged variant: no copy, the same object.
CopyTargetAlias(src) == src

\* The object self.df.copy() returns: a new DataFrame.
CopyTarget(src) == "copy"

CleanData ==
    /\ pc = "clean"
    /\ IF df = None
       THEN UNCHANGED <<heap, cleaned_df, log>>
       ELSE LET c == CopyTarget(df)
                h1 == (c :> heap[df]) @@ heap
                h2 == [h1 EXCEPT ![c] = FillMissing(h1[c])]
                h3 == ("dedup" :> DropDuplicates(h2[c])) @@ h2
                h4 == [h3 EXCEPT !["dedup"] = AddYearAdded(h3["dedup"])]
            IN /\ heap' = h4
               /\ cleaned_df' = "dedup"
               /\ log' = Append(log, "clean")
    /\ pc' = "content_types"
    /\ UNCHANGED <<file, df, artifacts, results>>

-----------------------------------------------------------------------------
(* The six analyzers: each reads the cleaned table and returns a result *)

Cleaned == heap[cleaned_df]

AnalyzeContentTypes ==
    /\ pc = "content_types"
    /\ IF cleaned_df = None
       THEN UNCHANGED <<content_counts, log>>
       ELSE /\ content_counts' = ValueCounts(Cleaned, "type")
            /\ log' = Append(log, "content_types")
    /\ pc' = "release_trends"
    /\ UNCHANGED <<file, heap, df, cleaned_df, artifacts, release_trends,
                   genre_counts, top_genres, country_counts, top_countries,
                   movie_durations, tv_durations, rating_counts>>

AnalyzeReleaseTrends ==
    /\ pc = "release_trends"
    /\ IF cleaned_df = None
       THEN UNCHANGED <<release_trends, log>>
       ELSE /\ release_trends' = ValueCounts(Cleaned, "release_year")
            /\ log' = Append(log, "release_trends")
    /\ pc' = "genres"
    /\ UNCHANGED <<file, heap, df, cleaned_df, artifacts, content_counts,
                   genre_counts, top_genres, country_counts, top_countries,
                   movie_durations, tv_durations, rating_counts>>

AnalyzeGenres ==
    /\ pc = "genres"
    /\ IF cleaned_df = None
       THEN UNCHANGED <<genre_counts, top_genres, log>>
       ELSE /\ genre_counts' = Counter(ColumnTokens(Cleaned, "listed_in"))
            /\ top_genres' = MostCommon(genre_counts', TopGenres)
            /\ log' = Append(log, "genres")
    /\ pc' = "countries"
    /\ UNCHANGED <<file, heap, df, cleaned_df, artifacts, content_counts,
                   release_trends, country_counts, top_countries,
                   movie_durations, tv_durations, rating_counts>>

AnalyzeCountries ==
    /\ pc = "countries"
    /\ IF cleaned_df = None
       THEN UNCHANGED <<country_counts, top_countries, log>>
       ELSE /\ country_counts' = Counter(ColumnTokens(Cleaned, "country"))
            /\ top_countries' = MostCommon(country_counts', TopCountries)
            /\ log' = Append(log, "countries")
    /\ pc' = "duration"
    /\ UNCHANGED <<file, heap, df, cleaned_df, artifacts, content_counts,
                   release_trends, genre_counts, top_genres,
                   movie_durations, tv_durations, rating_counts>>

AnalyzeDuration ==
    /\ pc = "duration"
    /\ IF cleaned_df = None
       THEN UNCHANGED <<movie_durations, tv_durations, log>>
       ELSE /\ movie_durations' = DurationList(FilterType(Cleaned, sMovie), sMin)
            /\ tv_durations' = DurationList(FilterType(Cleaned, sTVShow), sSeason)
            /\ log' = Append(log, "duration")
    /\ pc' = "ratings"
    /\ UNCHANGED <<file, heap, df, cleaned_df, artifacts, content_counts,
                   release_trends, genre_counts, top_genres, country_counts,
                   top_countries, rating_counts>>

AnalyzeRatings ==
    /\ pc = "ratings"
    /\ IF cleaned_df = None
       THEN UNCHANGED <<rating_counts, log>>
       ELSE /\ rating_counts' = ValueCounts(Cleaned, "rating")
            /\ log' = Append(log, "ratings")
    /\ pc' = "visualize"
    /\ UNCHANGED <<file, heap, df, cleaned_df, artifacts, content_counts,
                   release_trends, genre_counts, top_genres, country_counts,
                   top_countries, movie_durations, tv_durations>>

-----------------------------------------------------------------------------
(* create_visualizations *)

\* Lines 433-435 as a bugged variant: the month overwrites date_added.
VisualizerColumnsOverwrite(T) ==
    IF HasColumn(T, "date_added")
    THEN AssignColumn(AssignColumn(T, "month_added", MonthAdded(T)),
                      "date_added", MonthAdded(T))
    ELSE T

\* Lines 433-435: month_added and year_added are assigned on the cleaned
\* table itself.
VisualizerColumns(T) ==
    IF HasColumn(T, "date_added")
    THEN LET T1 == AssignColumn(T, "month_added", MonthAdded(T))
         IN AssignColumn(T1, "year_added", YearAdded(T1))
    ELSE T

\* The year x month pivot of line 438 has no cell: no row has a date.
HeatmapEmpty(T) ==
    HasColumn(T, "date_added") /\ \A i \in 1..Len(T) : IsNull(T[i].date_added)

\* All three figures are saved (when cleaned_df is None the method only
\* prints and returns).
VisualizeOk ==
    /\ pc = "visualize"
    /\ IF cleaned_df = None
       THEN UNCHANGED <<heap, artifacts, log>>
       ELSE /\ Cleaned # <<>>
            /\ ~HeatmapEmpty(Cleaned)
            /\ heap' = [heap EXCEPT ![cleaned_df] = VisualizerColumns(@)]
            /\ artifacts' = artifacts \cup {Artifacts[1], Artifacts[2], Artifacts[3]}
            /\ log' = Append(log, "visualize")
    /\ pc' = "summary"
    /\ UNCHANGED <<file, df, cleaned_df, results>>

\* The bar chart of an empty value_counts raises in the plotting library:
\* nothing has been saved yet.
VisualizeRaiseAtBar ==
    /\ pc = "visualize"
    /\ cleaned_df # None
    /\ Cleaned = <<>>
    /\ log' = Append(log, "visualize")
    /\ pc' = "raised"
    /\ UNCHANGED <<file, heap, df, cleaned_df, artifacts, results>>

\* The heatmap step as a bugged variant: the exception of sns.heatmap is
\* swallowed and the run goes on to the completion summary.
VisualizeHeatmapErrorSwallowed ==
    /\ pc = "visualize"
    /\ cleaned_df # None
    /\ HeatmapEmpty(Cleaned)
    /\ heap' = [heap EXCEPT ![cleaned_df] = VisualizerColumns(@)]
    /\ artifacts' = artifacts \cup {Artifacts[1], Artifacts[2]}
    /\ log' = Append(log, "visualize")
    /\ pc' = "summary"
    /\ UNCHANGED <<file, df, cleaned_df, results>>

\* sns.heatmap raises on an empty pivot: two figures are saved, the columns
\* are already assigned, the third figure is not saved.
VisualizeRaiseAtHeatmap ==
    /\ pc = "visualize"
    /\ cleaned_df # None
    /\ HeatmapEmpty(Cleaned)
    /\ heap' = [heap EXCEPT ![cleaned_df] = VisualizerColumns(@)]
    /\ artifacts' = artifacts \cup {Artifacts[1], Artifacts[2]}
    /\ log' = Append(log, "visualize")
    /\ pc' = "raised"
    /\ UNCHANGED <<file, df, cleaned_df, results>>

\* The completion summary of run_complete_analysis.
Summary ==
    /\ pc = "summary"
    /\ log' = Append(log, "summary")
    /\ pc' = "done"
    /\ UNCHANGED <<file, heap, df, cleaned_df, artifacts, results>>

-----------------------------------------------------------------------------
(* run_complete_analysis *)

Next ==
    \/ LoadOk
    \/ LoadNotFound
    \/ LoadError
    \/ ExploreData
    \/ CleanData
    \/ AnalyzeContentTypes
    \/ AnalyzeReleaseTrends
    \/ AnalyzeGenres
    \/ AnalyzeCountries
    \/ AnalyzeDuration
    \/ AnalyzeRatings
    \/ VisualizeOk
    \/ VisualizeRaiseAtBar
    \/ VisualizeRaiseAtHeatmap
    \/ Summary

Spec == Init /\ [][Next]_vars

SpecDuration == InitDuration /\ [][Next]_vars

SpecFreq == InitFreq /\ [][Next]_vars

-----------------------------------------------------------------------------
(* Vocabulary of the properties *)

Ran(stage) == \E i \in 1..Len(log) : log[i] = stage

\* The sum of a sequence of numbers.
SeqSum(s) ==
    LET F[i \in 0..Len(s)] == IF i = 0 THEN 0 ELSE F[i - 1] + s[i]
    IN F[Len(s)]

\* The table as loaded.
Raw == file.rows

\* Rows of T whose show_id did not appear in an earlier row.
FirstIdx(T) ==
    {i \in 1..Len(T) : \A j \in 1..(i - 1) : T[j].show_id # T[i].show_id}

\* The k-th smallest element of a set of numbers.
Nth(S, k) == CHOOSE i \in S : Cardinality({j \in S : j < i}) = k - 1

\* The raw row the k-th cleaned row comes from.
Origin(k) == Nth(FirstIdx(Raw), k)

Parseable(c) == ToDatetime(c) # NaT

\* The parsed date of the nearest row at or before i with a parseable date.
NearestParsed(T, i) ==
    IF \E j \in 1..i : Parseable(T[j].date_added)
    THEN LET j == CHOOSE k \in 1..i :
                    /\ Parseable(T[k].date_added)
                    /\ \A m \in (k + 1)..i : ~Parseable(T[m].date_added)
         IN ToDatetime(T[j].date_added)
    ELSE NaT

\* A row restricted to a set of columns.
Restrict(r, cols) == [c \in cols |-> r[c]]

-----------------------------------------------------------------------------
(* C1 *)

\* C1: when load_data fails (file missing or not decodable) the run aborts at
\* the load stage: load is the only stage that ran, df and cleaned_df are
\* still None, no DataFrame exists and no image file is written.
C1_FailedLoadAborts ==
    (file.kind \in {"missing", "malformed"} /\ pc # "load") =>
        /\ pc = "aborted"
        /\ log = <<"load">>
        /\ df = None
        /\ cleaned_df = None
        /\ heap = <<>>
        /\ artifacts = {}

C1_Witness == pc = "aborted" /\ file.kind = "malformed" /\ log = <<"load">>

-----------------------------------------------------------------------------
(* C2 *)

\* C2: clean_data keeps exactly the first occurrence of each show_id, in the
\* original order: the cleaned row count is the raw count minus the rows whose
\* show_id appeared earlier, the k-th cleaned row is the k-th first occurrence
\* (same id and same untouched columns), and show_id is unique.
C2_KeepFirstOccurrence ==
    cleaned_df # None =>
        /\ Len(Cleaned) = Len(Raw) - Cardinality((1..Len(Raw)) \ FirstIdx(Raw))
        /\ \A k \in 1..Len(Cleaned) :
              Restrict(Cleaned[k], {"show_id", "type", "release_year", "listed_in"})
              = Restrict(Raw[Origin(k)], {"show_id", "type", "release_year", "listed_in"})
        /\ \A i, j \in 1..Len(Cleaned) :
              Cleaned[i].show_id = Cleaned[j].show_id => i = j

\* Three rows, the first and the last with the same id but different
\* contents: two rows survive, the first and the second.
C2_Witness ==
    /\ cleaned_df # None
    /\ Len(Raw) = 3
    /\ Raw[1].show_id = Raw[3].show_id
    /\ Raw[1].release_year # Raw[3].release_year
    /\ Raw[2].show_id # Raw[1].show_id
    /\ Len(Cleaned) = 2
    /\ Cleaned[1].release_year = Raw[1].release_year

-----------------------------------------------------------------------------
(* C3 *)

-----------------------------------------------------------------------------
(* C4 *)

\* C4: every cleaned row holds the parsed date of the nearest row at or before
\* it, in the row order at the time of the fill (the raw order, duplicates
\* included), that has a parseable date; a row with no such row keeps a null
\* date_added and a null year_added, and year_added is the year of date_added.
C4_ForwardFillOnly ==
    cleaned_df # None =>
        \A k \in 1..Len(Cleaned) :
            /\ Cleaned[k].date_added = NearestParsed(Raw, Origin(k))
            /\ (\A j \in 1..Origin(k) : ~Parseable(Raw[j].date_added)) =>
                  Cleaned[k].date_added = NaT /\ Cleaned[k].year_added = NaN
            /\ Cleaned[k].date_added # NaT =>
                  Cleaned[k].year_added = IntCell(Cleaned[k].date_added.year)

\* A leading unparseable date followed by a parseable one stays null (nothing
\* is filled backwards), and a later unparseable date takes the nearest
\* earlier date, here one held by a row that deduplication drops.
C4_Witness ==
    /\ cleaned_df # None
    /\ Len(Raw) = 3 /\ Len(Cleaned) = 2
    /\ Raw[1].date_added = StrCell(sDateTBA)
    /\ Raw[2].date_added = StrCell(sDateJune)
    /\ Raw[2].show_id = Raw[1].show_id
    /\ Raw[3].date_added = Null
    /\ Cleaned[1].date_added = NaT /\ Cleaned[1].year_added = NaN
    /\ Cleaned[2].date_added = DateCell(2021, 6, 5)
    /\ Cleaned[2].year_added = IntCell(2021)

-----------------------------------------------------------------------------
(* C5 *)

\* C5: the Cleaner is idempotent: cleaning the cleaned table yields the
\* cleaned table, no row is dropped and no value is filled again.
C5_CleanerIdempotent ==
    cleaned_df # None => CleanTable(Cleaned) = Cleaned

\* A cleaned table that differs from the raw one in every way: a duplicate
\* was dropped, a country and a date were filled, a leading date stays null.
C5_Witness ==
    /\ cleaned_df # None /\ pc = "content_types"
    /\ Len(Cleaned) = 2 /\ Len(Raw) = 3
    /\ Cleaned[1].date_added = NaT
    /\ \E i \in 1..3 : IsNull(Raw[i].country)
    /\ IsNull(Raw[Origin(2)].date_added) /\ Cleaned[2].date_added # NaT

-----------------------------------------------------------------------------
(* C6 *)

\* C6: the cleaned table is a new DataFrame and the raw table self.df is
\* untouched: in every state it equals the table as loaded, nulls and
\* duplicate rows included.
C6_RawUntouched ==
    /\ df # None => heap[df] = Raw
    /\ cleaned_df # None => cleaned_df # df

\* After cleaning a raw table with a null country, a null date and a
\* duplicate row, the raw table still holds all of them.
C6_Witness ==
    /\ cleaned_df # None
    /\ Len(heap[df]) = 3 /\ Len(Cleaned) = 2
    /\ IsNull(heap[df][1].country) /\ ~IsNull(Cleaned[1].country)
    /\ heap[df][3].date_added = Null /\ Cleaned[2].date_added # NaT

-----------------------------------------------------------------------------
(* C7 *)

\* C7 as stated: once clean_data has produced the cleaned table no later stage
\* modifies it: every step leaves its rows, columns and values as they are.
C7_CleanedNeverModified ==
    [][cleaned_df # None =>
          /\ cleaned_df' = cleaned_df
          /\ heap'[cleaned_df] = heap[cleaned_df]]_vars

\* C7 as amended: the six analyzers leave the cleaned table exactly as
\* clean_data left it; create_visualizations keeps its rows, their order and
\* the value of every column clean_data left, and adds one column,
\* month_added, holding the month of date_added.
C7_OnlyVisualizerAddsMonth ==
    [][cleaned_df # None =>
          /\ cleaned_df' = cleaned_df
          /\ IF pc = "visualize"
             THEN /\ Len(heap'[cleaned_df]) = Len(heap[cleaned_df])
                  /\ \A i \in 1..Len(heap[cleaned_df]) :
                        LET old == heap[cleaned_df][i]
                            new == heap'[cleaned_df][i]
                        IN /\ DOMAIN old \subseteq DOMAIN new
                           /\ Restrict(new, DOMAIN old) = old
                           /\ (DOMAIN new) \ (DOMAIN old) \subseteq {"month_added"}
                           /\ "month_added" \in DOMAIN new =>
                                 new.month_added = DtMonth(old.date_added)
             ELSE heap'[cleaned_df] = heap[cleaned_df]]_vars

\* The run is complete, the three figures are written and the cleaned table
\* has gained the month_added column.
C7_Witness ==
    /\ pc = "done"
    /\ Cardinality(artifacts) = 3
    /\ Len(Cleaned) = 2
    /\ "month_added" \in DOMAIN Cleaned[1]
    /\ Cleaned[1].month_added = IntCell(5)
    /\ Cleaned[2].year_added = IntCell(2021)

-----------------------------------------------------------------------------
(* C8 *)

\* The durations of the inputs that contain the expected substring and start
\* with an integer token, with that integer.
LeadingMinutes == (StrCell(s90min) :> 90)
LeadingSeasons == (StrCell(s3Seasons) :> 3) @@ (StrCell(s1Season) :> 1)

\* The values table[d] of the rows of the given type whose duration d is in
\* the table, in row order.
ExpectedDurations(T, type, table) ==
    LET rows == SelectSeq(T, LAMBDA r : r.type = StrCell(type)
                                        /\ r.duration \in DOMAIN table)
    IN [i \in 1..Len(rows) |-> table[rows[i].duration]]

\* C8: analyze_duration returns, for Movie rows, exactly the leading integers
\* of the durations that contain "min" and start with an integer token, and
\* for TV Show rows exactly those of the durations that contain "Season";
\* "bad", "45min", "Unknown" and durations with the other type's substring are
\* in neither, and the analyzer completes on every table.
C8_DurationSets ==
    /\ Ran("duration") =>
          /\ movie_durations = ExpectedDurations(Cleaned, sMovie, LeadingMinutes)
          /\ tv_durations = ExpectedDurations(Cleaned, sTVShow, LeadingSeasons)
    /\ (pc = "duration" /\ cleaned_df # None) => ENABLED AnalyzeDuration

\* The spec's scenario: Movie "90 min", Movie "bad", TV Show "3 Seasons" give
\* the movie set {90} and the TV set {3}.
C8_Witness ==
    /\ Ran("duration")
    /\ Len(Cleaned) = 3
    /\ Cleaned[1].type = StrCell(sMovie) /\ Cleaned[1].duration = StrCell(s90min)
    /\ Cleaned[2].type = StrCell(sMovie) /\ Cleaned[2].duration = StrCell(sBad)
    /\ Cleaned[3].type = StrCell(sTVShow) /\ Cleaned[3].duration = StrCell(s3Seasons)
    /\ movie_durations = <<90>>
    /\ tv_durations = <<3>>

-----------------------------------------------------------------------------
(* C9 *)

\* The number of comma-separated tokens of a cell: one more than its commas,
\* none when the cell is missing.
TokenCount(c) ==
    IF IsNull(c) THEN 0 ELSE Cardinality({i \in 1..Len(c.v) : c.v[i] = ","}) + 1

ColumnTokenCount(T, col) == SeqSum([i \in 1..Len(T) |-> TokenCount(T[i][col])])

CountSum(cnt) == SeqSum([i \in 1..Len(cnt) |-> cnt[i].n])

\* "International Movies"
sIntlMovies == SubSeq(sDramasIntl, 9, Len(sDramasIntl))

\* C9: the counts accumulated by analyze_genres (analyze_countries) sum to the
\* number of comma-separated tokens of listed_in (country) over all rows of
\* the cleaned table, a missing cell contributing none; "Dramas, International
\* Movies" and "Dramas" give {Dramas: 2, International Movies: 1}.
C9_CountsSumToTokens ==
    /\ Ran("genres") =>
          /\ CountSum(genre_counts) = ColumnTokenCount(Cleaned, "listed_in")
          /\ (Len(Cleaned) = 2 /\ Cleaned[1].listed_in = StrCell(sDramasIntl)
                /\ Cleaned[2].listed_in = StrCell(sDramas)) =>
                genre_counts = <<[key |-> sDramas, n |-> 2],
                                 [key |-> sIntlMovies, n |-> 1]>>
    /\ Ran("countries") =>
          CountSum(country_counts) = ColumnTokenCount(Cleaned, "country")

C9_Witness ==
    /\ Ran("countries")
    /\ Len(Cleaned) = 2
    /\ Cleaned[1].listed_in = StrCell(sDramasIntl)
    /\ Cleaned[2].listed_in = StrCell(sDramas)
    /\ genre_counts = <<[key |-> sDramas, n |-> 2], [key |-> sIntlMovies, n |-> 1]>>
    /\ CountSum(country_counts) = 2

-----------------------------------------------------------------------------
(* C10 *)

\* How often a token occurs in a token list, and where it occurs first.
Occurrences(toks, k) == Cardinality({i \in 1..Len(toks) : toks[i] = k})
FirstSeen(toks, k) == CHOOSE i \in 1..Len(toks) :
                          toks[i] = k /\ \A j \in 1..(i - 1) : toks[j] # k

\* Token a ranks before token b: more frequent, or as frequent and
\* encountered first.
RanksBefore(toks, a, b) ==
    \/ Occurrences(toks, a) > Occurrences(toks, b)
    \/ /\ Occurrences(toks, a) = Occurrences(toks, b)
       /\ FirstSeen(toks, a) < FirstSeen(toks, b)

\* top is the n best-ranked tokens of toks (all of them when there are fewer),
\* each with its count, best first.
IsTop(top, toks, n) ==
    LET distinct == {toks[i] : i \in 1..Len(toks)}
        chosen == {top[i].key : i \in 1..Len(top)}
    IN /\ Len(top) = IF Cardinality(distinct) < n THEN Cardinality(distinct) ELSE n
       /\ Cardinality(chosen) = Len(top)
       /\ chosen \subseteq distinct
       /\ \A i \in 1..Len(top) : top[i].n = Occurrences(toks, top[i].key)
       /\ \A i, j \in 1..Len(top) :
             i < j => RanksBefore(toks, top[i].key, top[j].key)
       /\ \A a \in chosen : \A b \in distinct \ chosen : RanksBefore(toks, a, b)

\* C10: analyze_genres returns the 10 and analyze_countries the 15 most
\* frequent tokens (all when fewer exist) by descending count; among equal
\* counts the order, and which tokens make the cut-off, follow the order of
\* first encounter in the cleaned table.
C10_TopByCountThenFirstSeen ==
    /\ Ran("genres") =>
          IsTop(top_genres, ColumnTokens(Cleaned, "listed_in"), TopGenres)
    /\ Ran("countries") =>
          IsTop(top_countries, ColumnTokens(Cleaned, "country"), TopCountries)

\* Eleven genres and sixteen countries, all but one of each seen once: the
\* last-encountered genre and country are cut off.
C10_Witness ==
    /\ Ran("countries")
    /\ Len(genre_counts) = 11 /\ Len(top_genres) = 10
    /\ Len(country_counts) = 16 /\ Len(top_countries) = 15
    /\ top_genres[1].n = 2 /\ top_genres[2].n = 1
    /\ top_countries[1].n = 2 /\ top_countries[2].n = 1
    /\ genre_counts[11].n = 1 /\ country_counts[16].n = 1

-----------------------------------------------------------------------------
(* C11 *)

\* The stages of run_complete_analysis in the order of its statements.
StageOrder ==
    <<"load", "explore", "clean", "content_types", "release_trends", "genres",
      "countries", "duration", "ratings", "visualize", "summary">>

IsPrefix(s, t) == Len(s) <= Len(t) /\ SubSeq(t, 1, Len(s)) = s

\* The run has ended: by returning or by an exception leaving it.
Ended == pc \in {"done", "aborted", "raised"}

AllArtifacts == {Artifacts[i] : i \in 1..Len(Artifacts)}

\* C11 as stated: when load_data succeeds the run executes every stage exactly
\* once in the fixed order load, explore, clean, the six analyzers, visualize,
\* completion summary: the stages run so far are always a prefix of that
\* order, and the run ends only with all of them run, the summary after the
\* three artifacts.
C11_EveryStageOnceInOrder ==
    file.kind = "table" =>
        /\ IsPrefix(log, StageOrder)
        /\ Ended => log = StageOrder
        /\ Ran("summary") => artifacts = AllArtifacts

\* C11 as amended: when load_data succeeds the stages run in the fixed order,
\* none skipped, repeated or reordered, every analyzer and the visualizer
\* after clean has produced the cleaned table, and the summary only after the
\* three artifacts are written; the run reaches the summary exactly when the
\* cleaned table has a row with a date. When it has none (an empty table, or
\* no parseable date_added) create_visualizations raises, the run ends at the
\* visualize stage without the summary and with at most two artifacts.
C11_StagesInOrderUntilVisualizerRaises ==
    file.kind = "table" =>
        /\ IsPrefix(log, StageOrder)
        /\ Len(log) > 3 => cleaned_df # None
        /\ Ran("summary") => artifacts = AllArtifacts
        /\ pc = "done" => log = StageOrder
        /\ pc \in {"summary", "done"} => ~HeatmapEmpty(Cleaned)
        /\ pc = "raised" =>
              /\ log = SubSeq(StageOrder, 1, Len(StageOrder) - 1)
              /\ HeatmapEmpty(Cleaned)
              /\ artifacts \subseteq {Artifacts[1], Artifacts[2]}
        /\ Ended => pc \in {"done", "raised"}

\* A complete run on a table of two surviving rows: every stage ran once, in
\* order, and the three artifacts exist.
C11_Witness ==
    /\ file.kind = "table"
    /\ pc = "done"
    /\ log = StageOrder
    /\ artifacts = AllArtifacts
    /\ Len(Raw) = 3 /\ Len(Cleaned) = 2

=============================================================================
